---------------------------- MODULE Spec2Model ----------------------------
(***************************************************************************)
(* Kynex: a 2D rigid-body simulator (src/Kynex/src).  The model follows    *)
(* World::step through its five phases, one solve_contact call and one     *)
(* positional_correction call at a time.                                   *)
(*                                                                         *)
(* Numbers.  An f32 is modelled by a pair <<n, d>>:                        *)
(*   d > 0        the finite value n/d, in lowest terms;                   *)
(*   <<1, 0>>     +infinity;   <<-1, 0>>   -infinity;   <<0, 0>>   NaN.    *)
(* Finite arithmetic is exact (the rounding of f32 is not modelled, and    *)
(* -0.0 is identified with 0.0); division by zero, the arithmetic of the   *)
(* infinities and of NaN, and comparisons with NaN follow IEEE 754, as the *)
(* Rust operators do.  The square root is exact on squares of rationals    *)
(* and truncated to a multiple of 1/SqrtDen elsewhere.                     *)
(***************************************************************************)
EXTENDS Integers, Sequences, FiniteSets, TLC

(***************************************************************************)
(* Bounds of the model.                                                    *)
(***************************************************************************)
MaxBodies == 2
MaxSteps == 2
MaxIterations == 2
MaxForces == 2
SqrtDen == 64
MaxDen == 5000

(***************************************************************************)
(* f32 values and operators.                                               *)
(***************************************************************************)
Abs(n) == IF n < 0 THEN -n ELSE n

Sgn(n) == IF n < 0 THEN -1 ELSE IF n > 0 THEN 1 ELSE 0

RECURSIVE Gcd(_, _)
Gcd(a, b) == IF b = 0 THEN a ELSE Gcd(b, a % b)

\* the finite value n/d (d # 0) in lowest terms
Q(n, d) ==
    LET g == Gcd(Abs(n), Abs(d))
    IN  IF d < 0 THEN <<(-n) \div g, (-d) \div g>> ELSE <<n \div g, d \div g>>

NaN == <<0, 0>>
PInf == <<1, 0>>
NInf == <<-1, 0>>
Zero == <<0, 1>>
One == <<1, 1>>
Two == <<2, 1>>

IsNaN(a) == a = NaN
IsInf(a) == a[2] = 0 /\ a[1] # 0
IsFinite(a) == a[2] > 0
Sign(a) == Sgn(a[1])

Neg(a) == <<-a[1], a[2]>>

Add(a, b) ==
    IF IsNaN(a) \/ IsNaN(b) THEN NaN
    ELSE IF IsInf(a) THEN (IF IsInf(b) /\ b # a THEN NaN ELSE a)
    ELSE IF IsInf(b) THEN b
    ELSE LET g == Gcd(a[2], b[2])
         IN  Q(a[1] * (b[2] \div g) + b[1] * (a[2] \div g), (a[2] \div g) * b[2])

Sub(a, b) == Add(a, Neg(b))

Mul(a, b) ==
    IF IsNaN(a) \/ IsNaN(b) THEN NaN
    ELSE IF IsInf(a) \/ IsInf(b)
         THEN (IF Sign(a) * Sign(b) = 0 THEN NaN ELSE <<Sign(a) * Sign(b), 0>>)
    ELSE LET g1 == Gcd(Abs(a[1]), b[2])
             g2 == Gcd(Abs(b[1]), a[2])
         IN  Q((a[1] \div g1) * (b[1] \div g2), (a[2] \div g2) * (b[2] \div g1))

Div(a, b) ==
    IF IsNaN(a) \/ IsNaN(b) THEN NaN
    ELSE IF IsInf(a) THEN (IF IsInf(b) THEN NaN
                           ELSE <<Sign(a) * (IF Sign(b) < 0 THEN -1 ELSE 1), 0>>)
    ELSE IF IsInf(b) THEN Zero
    ELSE IF b[1] = 0 THEN (IF a[1] = 0 THEN NaN ELSE <<Sign(a), 0>>)
    ELSE Mul(a, Q(b[2], b[1]))

\* a < b, false when either is NaN
Lt(a, b) ==
    /\ ~IsNaN(a)
    /\ ~IsNaN(b)
    /\ IF IsInf(a) \/ IsInf(b)
       THEN a # b /\ (a = NInf \/ b = PInf)
       ELSE a[1] * b[2] < b[1] * a[2]

Gt(a, b) == Lt(b, a)

\* a == b of f32: NaN equals nothing
Eq(a, b) == ~IsNaN(a) /\ ~IsNaN(b) /\ a = b

Le(a, b) == Lt(a, b) \/ Eq(a, b)

Ge(a, b) == Le(b, a)

\* f32::max and f32::min: a NaN operand is ignored
FMax(a, b) == IF IsNaN(a) THEN b ELSE IF IsNaN(b) THEN a ELSE IF Lt(a, b) THEN b ELSE a

FMin(a, b) == IF IsNaN(a) THEN b ELSE IF IsNaN(b) THEN a ELSE IF Lt(b, a) THEN b ELSE a

RECURSIVE Newton(_, _)
Newton(x, n) ==
    LET y == (x + n \div x) \div 2
    IN  IF y >= x THEN x ELSE Newton(y, n)

\* the integer square root of n >= 0
ISqrt(n) == IF n = 0 THEN 0 ELSE Newton(n, n)

IsSquare(n) == ISqrt(n) * ISqrt(n) = n

\* floor(n * s * s / d) for 0 <= n, 0 < d, without a product above d * s
ScaleSq(n, d, s) ==
    LET q0 == n \div d
        r0 == n % d
        q1 == (r0 * s) \div d
        r1 == (r0 * s) % d
        q2 == (r1 * s) \div d
    IN  q0 * s * s + q1 * s + q2

\* f32::sqrt
Sqrt(a) ==
    IF IsNaN(a) \/ Sign(a) < 0 THEN NaN
    ELSE IF IsInf(a) THEN PInf
    ELSE IF IsSquare(a[1]) /\ IsSquare(a[2]) THEN Q(ISqrt(a[1]), ISqrt(a[2]))
    ELSE Q(ISqrt(ScaleSq(a[1], a[2], SqrtDen)), SqrtDen)


(***************************************************************************)
(* math/mod.rs: Vec2.                                                      *)
(***************************************************************************)
Vec2(x, y) == [x |-> x, y |-> y]

ZERO == Vec2(Zero, Zero)

X == Vec2(One, Zero)

VAdd(u, v) == Vec2(Add(u.x, v.x), Add(u.y, v.y))

VSub(u, v) == Vec2(Sub(u.x, v.x), Sub(u.y, v.y))

VMul(u, s) == Vec2(Mul(u.x, s), Mul(u.y, s))

VDiv(u, s) == Vec2(Div(u.x, s), Div(u.y, s))

VNeg(u) == Vec2(Neg(u.x), Neg(u.y))

Dot(u, v) == Add(Mul(u.x, v.x), Mul(u.y, v.y))

Cross(u, v) == Sub(Mul(u.x, v.y), Mul(u.y, v.x))

Len2(u) == Dot(u, u)

VLen(u) == Sqrt(Len2(u))

Normalized(u) == IF Gt(VLen(u), Zero) THEN VDiv(u, VLen(u)) ELSE ZERO

CrossSV(s, v) == Vec2(Mul(Neg(s), v.y), Mul(s, v.x))

VIsFinite(u) == IsFinite(u.x) /\ IsFinite(u.y)

(***************************************************************************)
(* shape.rs and body.rs.  Body ids are 1-based here (0-based in the code). *)
(***************************************************************************)
Circle(r) == [kind |-> "Circle", r |-> r, hx |-> Zero, hy |-> Zero]

Box(hx, hy) == [kind |-> "Box", r |-> Zero, hx |-> hx, hy |-> hy]

Material(restitution, friction) == [restitution |-> restitution, friction |-> friction]

MaterialDefault == Material(Q(1, 5), Q(3, 5))

\* the reciprocal rule of new_dynamic: 1/x for x > 0, else 0
InvOrZero(x) == IF Gt(x, Zero) THEN Div(One, x) ELSE Zero

Inertia(shape, m) ==
    IF shape.kind = "Circle"
    THEN Mul(Mul(Mul(Q(1, 2), m), shape.r), shape.r)
    ELSE LET w == Mul(Two, shape.hx)
             h == Mul(Two, shape.hy)
         IN  Mul(Mul(Div(One, Q(12, 1)), m), Add(Mul(w, w), Mul(h, h)))

new_dynamic(shape, mass, position) ==
    LET m == IF Gt(mass, Zero) THEN mass ELSE Zero
        i == Inertia(shape, m)
    IN  [p |-> position, a |-> Zero, v |-> ZERO, w |-> Zero, f |-> ZERO, t |-> Zero,
         m |-> m, inv_m |-> InvOrZero(mass), i |-> i, inv_i |-> InvOrZero(i),
         material |-> MaterialDefault, shape |-> shape, is_static |-> FALSE]

new_static(shape, position) ==
    [p |-> position, a |-> Zero, v |-> ZERO, w |-> Zero, f |-> ZERO, t |-> Zero,
     m |-> Zero, inv_m |-> Zero, i |-> Zero, inv_i |-> Zero,
     material |-> MaterialDefault, shape |-> shape, is_static |-> TRUE]

apply_force(b, force) == [b EXCEPT !.f = VAdd(b.f, force)]

(***************************************************************************)
(* collision/mod.rs and collision/circle_circle.rs.  The Option<Manifold>  *)
(* is a sequence of length 0 (None) or 1 (Some).                           *)
(***************************************************************************)
Contact(point, normal, penetration) ==
    [point |-> point, normal |-> normal, penetration |-> penetration]

Manifold(a, b, contact) == [a |-> a, b |-> b, contact |-> contact]

NormalEps == Q(1, 100000)

\* circle_circle with two circles that only touch taken to collide
circle_circle_touching(a_id, b_id, a, b) ==
    IF a.shape.kind # "Circle" \/ b.shape.kind # "Circle" THEN <<>>
    ELSE LET ra == a.shape.r
             rb == b.shape.r
             ab == VSub(b.p, a.p)
             dist2 == Len2(ab)
             r == Add(ra, rb)
         IN  IF Gt(dist2, Mul(r, r)) THEN <<>>
             ELSE LET dist == Sqrt(dist2)
                      normal == IF Gt(dist, NormalEps) THEN VDiv(ab, dist) ELSE X
                      penetration == Sub(r, dist)
                      point == VAdd(a.p, VMul(normal, ra))
                  IN  <<Manifold(a_id, b_id, Contact(point, normal, penetration))>>

circle_circle(a_id, b_id, a, b) ==
    IF a.shape.kind # "Circle" \/ b.shape.kind # "Circle" THEN <<>>
    ELSE LET ra == a.shape.r
             rb == b.shape.r
             ab == VSub(b.p, a.p)
             dist2 == Len2(ab)
             r == Add(ra, rb)
         IN  IF Ge(dist2, Mul(r, r)) THEN <<>>
             ELSE LET dist == Sqrt(dist2)
                      normal == IF Gt(dist, NormalEps) THEN VDiv(ab, dist) ELSE X
                      penetration == Sub(r, dist)
                      point == VAdd(a.p, VMul(normal, ra))
                  IN  <<Manifold(a_id, b_id, Contact(point, normal, penetration))>>

(***************************************************************************)
(* world.rs: the phases of World::step as functions of the body list.      *)
(***************************************************************************)
GravityDefault == Vec2(Zero, Q(-981, 100))

\* phase 1 with the force not scaled by the inverse mass
IntegrateForceNoMass(b, g, h) ==
    IF b.is_static \/ Eq(b.inv_m, Zero) THEN b
    ELSE [b EXCEPT !.v = VAdd(b.v, VMul(VAdd(b.f, g), h)),
                   !.w = Add(b.w, Mul(Mul(b.t, b.inv_i), h)),
                   !.f = ZERO,
                   !.t = Zero]

\* phase 1 that also moves the body, by its old velocity (explicit Euler)
IntegrateForceAndPosition(b, g, h) ==
    IF b.is_static \/ Eq(b.inv_m, Zero) THEN b
    ELSE [b EXCEPT !.p = VAdd(b.p, VMul(b.v, h)),
                   !.v = VAdd(b.v, VMul(VAdd(VMul(b.f, b.inv_m), g), h)),
                   !.w = Add(b.w, Mul(Mul(b.t, b.inv_i), h)),
                   !.f = ZERO,
                   !.t = Zero]

\* phase 1, one body
IntegrateForce(b, g, h) ==
    IF b.is_static \/ Eq(b.inv_m, Zero) THEN b
    ELSE [b EXCEPT !.v = VAdd(b.v, VMul(VAdd(VMul(b.f, b.inv_m), g), h)),
                   !.w = Add(b.w, Mul(Mul(b.t, b.inv_i), h)),
                   !.f = ZERO,
                   !.t = Zero]

IntegrateForces(bs, g, h) == [n \in DOMAIN bs |-> IntegrateForce(bs[n], g, h)]

\* phase 2 without the skip of the static-static pairs
RECURSIVE GatherFromAllPairs(_, _, _)
GatherFromAllPairs(bs, i, j) ==
    IF i > Len(bs) THEN <<>>
    ELSE IF j > Len(bs) THEN GatherFromAllPairs(bs, i + 1, i + 2)
    ELSE circle_circle(i, j, bs[i], bs[j]) \o GatherFromAllPairs(bs, i, j + 1)

\* phase 2: the pairs i < j in the order of the two loops, from pair (i, j) on
RECURSIVE GatherFrom(_, _, _)
GatherFrom(bs, i, j) ==
    IF i > Len(bs) THEN <<>>
    ELSE IF j > Len(bs) THEN GatherFrom(bs, i + 1, i + 2)
    ELSE (IF bs[i].is_static /\ bs[j].is_static THEN <<>>
          ELSE circle_circle(i, j, bs[i], bs[j]))
         \o GatherFrom(bs, i, j + 1)

GatherContacts(bs) == GatherFrom(bs, 1, 2)

\* f32::clamp panics unless min <= max (so also when either is NaN)
ClampPanics(lo, hi) == ~Le(lo, hi)

Clamp(x, lo, hi) == IF Lt(x, lo) THEN lo ELSE IF Gt(x, hi) THEN hi ELSE x

\* the relative velocity of the two bodies at the contact point
RelVel(bs, m) ==
    LET a == bs[m.a]
        b == bs[m.b]
        ra == VSub(m.contact.point, a.p)
        rb == VSub(m.contact.point, b.p)
        va == VAdd(a.v, CrossSV(a.w, ra))
        vb == VAdd(b.v, CrossSV(b.w, rb))
    IN  VSub(vb, va)

VelAlongNormal(bs, m) == Dot(RelVel(bs, m), m.contact.normal)

\* an impulse scaled on both bodies by the inverse mass of the first
ApplyImpulseFirstMass(bs, m, imp) ==
    LET a == bs[m.a]
        b == bs[m.b]
        ra == VSub(m.contact.point, a.p)
        rb == VSub(m.contact.point, b.p)
    IN  [bs EXCEPT ![m.a] = [a EXCEPT !.v = VSub(a.v, VMul(imp, a.inv_m)),
                                      !.w = Sub(a.w, Mul(a.inv_i, Cross(ra, imp)))],
                   ![m.b] = [b EXCEPT !.v = VAdd(b.v, VMul(imp, a.inv_m)),
                                      !.w = Add(b.w, Mul(b.inv_i, Cross(rb, imp)))]]

\* a.v -= imp * a.inv_m, b.v += imp * b.inv_m, and the angular counterparts
ApplyImpulse(bs, m, imp) ==
    LET a == bs[m.a]
        b == bs[m.b]
        ra == VSub(m.contact.point, a.p)
        rb == VSub(m.contact.point, b.p)
    IN  [bs EXCEPT ![m.a] = [a EXCEPT !.v = VSub(a.v, VMul(imp, a.inv_m)),
                                      !.w = Sub(a.w, Mul(a.inv_i, Cross(ra, imp)))],
                   ![m.b] = [b EXCEPT !.v = VAdd(b.v, VMul(imp, b.inv_m)),
                                      !.w = Add(b.w, Mul(b.inv_i, Cross(rb, imp)))]]

\* the effective inverse mass of the pair along direction d
InvMassAlong(bs, m, d) ==
    LET a == bs[m.a]
        b == bs[m.b]
        ra_cd == Cross(VSub(m.contact.point, a.p), d)
        rb_cd == Cross(VSub(m.contact.point, b.p), d)
    IN  Add(Add(Add(a.inv_m, b.inv_m), Mul(Mul(ra_cd, ra_cd), a.inv_i)),
            Mul(Mul(rb_cd, rb_cd), b.inv_i))

\* the impulse scalar with half the restitution
NormalImpulseHalfBounce(bs, m) ==
    LET e == Mul(Q(1, 2), FMin(bs[m.a].material.restitution, bs[m.b].material.restitution))
    IN  Div(Mul(Neg(Add(One, e)), VelAlongNormal(bs, m)),
            InvMassAlong(bs, m, m.contact.normal))

\* the impulse scalar j
NormalImpulse(bs, m) ==
    LET e == FMin(bs[m.a].material.restitution, bs[m.b].material.restitution)
    IN  Div(Mul(Neg(Add(One, e)), VelAlongNormal(bs, m)),
            InvMassAlong(bs, m, m.contact.normal))

\* solve_contact without the early return for separating bodies
solve_contact_sticky(bs, m) ==
    LET c == m.contact
        rv == RelVel(bs, m)
        j == NormalImpulse(bs, m)
        bs1 == ApplyImpulse(bs, m, VMul(c.normal, j))
        tangent == Normalized(VSub(rv, VMul(c.normal, Dot(rv, c.normal))))
        inv_mass_t == InvMassAlong(bs, m, tangent)
        jt == Div(Neg(Dot(rv, tangent)), inv_mass_t)
        mu == Sqrt(Mul(bs[m.a].material.friction, bs[m.b].material.friction))
        lo == Mul(Neg(mu), j)
        hi == Mul(mu, j)
    IN  IF Eq(InvMassAlong(bs, m, c.normal), Zero) THEN [bodies |-> bs, panic |-> FALSE]
        ELSE IF Eq(inv_mass_t, Zero) THEN [bodies |-> bs1, panic |-> FALSE]
        ELSE IF ClampPanics(lo, hi) THEN [bodies |-> bs1, panic |-> TRUE]
        ELSE [bodies |-> ApplyImpulse(bs1, m, VMul(tangent, Clamp(jt, lo, hi))),
              panic |-> FALSE]

\* solve_contact: the bodies it leaves and whether it panicked (in clamp)
solve_contact(bs, m) ==
    LET c == m.contact
        rv == RelVel(bs, m)
        vn == Dot(rv, c.normal)
        j == NormalImpulse(bs, m)
        bs1 == ApplyImpulse(bs, m, VMul(c.normal, j))
        tangent == Normalized(VSub(rv, VMul(c.normal, Dot(rv, c.normal))))
        inv_mass_t == InvMassAlong(bs, m, tangent)
        jt == Div(Neg(Dot(rv, tangent)), inv_mass_t)
        mu == Sqrt(Mul(bs[m.a].material.friction, bs[m.b].material.friction))
        lo == Mul(Neg(mu), j)
        hi == Mul(mu, j)
    IN  IF Gt(vn, Zero) THEN [bodies |-> bs, panic |-> FALSE]
        ELSE IF Eq(InvMassAlong(bs, m, c.normal), Zero) THEN [bodies |-> bs, panic |-> FALSE]
        ELSE IF Eq(inv_mass_t, Zero) THEN [bodies |-> bs1, panic |-> FALSE]
        ELSE IF ClampPanics(lo, hi) THEN [bodies |-> bs1, panic |-> TRUE]
        ELSE [bodies |-> ApplyImpulse(bs1, m, VMul(tangent, Clamp(jt, lo, hi))),
              panic |-> FALSE]

\* phase 4, one body
IntegratePosition(b, h) ==
    IF b.is_static THEN b
    ELSE [b EXCEPT !.p = VAdd(b.p, VMul(b.v, h)),
                   !.a = Add(b.a, Mul(b.w, h))]

IntegratePositions(bs, h) == [n \in DOMAIN bs |-> IntegratePosition(bs[n], h)]

Percent == Q(4, 5)

Slop == Q(1, 100)

positional_correction(bs, m) ==
    LET a == bs[m.a]
        b == bs[m.b]
        c == m.contact
        correction_mag ==
            Mul(Div(FMax(Sub(c.penetration, Slop), Zero), Add(a.inv_m, b.inv_m)), Percent)
        correction == VMul(c.normal, correction_mag)
    IN  [bs EXCEPT ![m.a] = IF a.is_static THEN a
                            ELSE [a EXCEPT !.p = VSub(a.p, VMul(correction, a.inv_m))],
                   ![m.b] = IF b.is_static THEN b
                            ELSE [b EXCEPT !.p = VAdd(b.p, VMul(correction, b.inv_m))]]

(***************************************************************************)
(* The inputs of the callers.                                              *)
(***************************************************************************)
Half == Q(1, 2)

Masses == {Zero, One, Two}

\* three points of one line, at distance 1 from one to the next
Positions == {ZERO, Vec2(Q(3, 5), Q(4, 5)), Vec2(Q(6, 5), Q(8, 5))}

Forces == {Vec2(Q(3, 1), Q(4, 1)), Vec2(Q(-3, 1), Q(-4, 1))}

Materials == {MaterialDefault, Material(One, Zero)}

Gravities == {GravityDefault, ZERO}

Dts == {Half}

\* the (mass, position) pairs of the dynamic bodies a caller adds
Placements ==
    {pl \in Masses \X Positions :
        \/ pl[1] = One
        \/ pl[2] = Vec2(Q(3, 5), Q(4, 5))
        \/ pl[1] = Zero /\ pl[2] = ZERO}

DynamicBodies == {new_dynamic(Circle(One), pl[1], pl[2]) : pl \in Placements}

StaticBodies == {new_static(s, ZERO) : s \in {Circle(Half), Box(One, One)}}

Lcm(a, b) == IF a = 0 \/ b = 0 THEN 1 ELSE (a \div Gcd(a, b)) * b

RECURSIVE LcmDen(_)
LcmDen(cs) ==
    IF cs = {} THEN 1
    ELSE LET c == CHOOSE c \in cs : TRUE
         IN  Lcm(c[2], LcmDen(cs \ {c}))

\* sqrt(a) is computed exactly
ExactSqrt(a) == ~IsFinite(a) \/ Sign(a) < 0 \/ (IsSquare(a[1]) /\ IsSquare(a[2]))

\* the step can be computed exactly from bs: the positions and velocities
\* share a denominator small enough for the products of one more step, and
\* the centres of two circles about to collide are at a rational distance
Representable(bs) ==
    LET cs == UNION {{bs[n].p.x, bs[n].p.y, bs[n].v.x, bs[n].v.y} : n \in DOMAIN bs}
    IN  /\ \A c \in cs : c[2] <= MaxDen /\ Abs(c[1]) <= MaxDen * MaxDen
        /\ LcmDen(cs) <= MaxDen
        /\ \A i, j \in DOMAIN bs :
              (/\ i < j
               /\ bs[i].shape.kind = "Circle"
               /\ bs[j].shape.kind = "Circle"
               /\ ~Ge(Len2(VSub(bs[j].p, bs[i].p)),
                      Mul(Add(bs[i].shape.r, bs[j].shape.r), Add(bs[i].shape.r, bs[j].shape.r))))
              => ExactSqrt(Len2(VSub(bs[j].p, bs[i].p)))

(***************************************************************************)
(* The state: the World, and the activation of World::step (its phase pc,  *)
(* its argument dt, its local contacts, and the loop counters iter and k). *)
(* start is the body list as it was when the running step was called, and  *)
(* separated holds the indices of the manifolds whose latest solve_contact *)
(* call took the early return for separating bodies.                       *)
(***************************************************************************)
VARIABLES bodies, gravity, iterations, pc, dt, contacts, iter, k, start, separated,
          nsteps, nforces

vars == <<bodies, gravity, iterations, pc, dt, contacts, iter, k, start, separated,
          nsteps, nforces>>

world == <<gravity, iterations>>

activation == <<pc, dt, contacts, iter, k, start, separated>>

Init ==
    /\ bodies = <<>>
    /\ gravity \in Gravities
    /\ iterations = MaxIterations
    /\ pc = "idle"
    /\ dt = Zero
    /\ contacts = <<>>
    /\ iter = 0
    /\ k = 0
    /\ start = <<>>
    /\ separated = {}
    /\ nsteps = 0
    /\ nforces = 0

\* World::add_body
AddBody ==
    /\ pc = "idle"
    /\ nsteps = 0
    /\ Len(bodies) < MaxBodies
    /\ \E b \in DynamicBodies \cup StaticBodies : bodies' = Append(bodies, b)
    /\ UNCHANGED <<world, activation, nsteps, nforces>>

\* world.bodies[id].material.restitution = ..; .friction = ..  (main.rs)
SetMaterial ==
    /\ pc = "idle"
    /\ nsteps = 0
    /\ \E n \in DOMAIN bodies, mat \in Materials :
          /\ bodies[n].material # mat
          /\ bodies' = [bodies EXCEPT ![n].material = mat]
    /\ UNCHANGED <<world, activation, nsteps, nforces>>

\* a caller writes the mass fields of a static body after construction
WriteMass ==
    /\ pc = "idle"
    /\ nsteps = 0
    /\ \E n \in DOMAIN bodies :
          /\ bodies[n].is_static
          /\ bodies[n].inv_m = Zero
          /\ bodies' = [bodies EXCEPT ![n].m = One, ![n].inv_m = One,
                                      ![n].i = One, ![n].inv_i = One]
    /\ UNCHANGED <<world, activation, nsteps, nforces>>

\* Body::apply_force on one body of the world
ApplyForce ==
    /\ pc = "idle"
    /\ nforces < MaxForces
    /\ \E n \in DOMAIN bodies, force \in Forces :
          bodies' = [bodies EXCEPT ![n] = apply_force(bodies[n], force)]
    /\ nforces' = nforces + 1
    /\ UNCHANGED <<world, activation, nsteps>>

\* World::step is called; phase 1, integrate forces
StepBegin ==
    /\ pc = "idle"
    /\ nsteps < MaxSteps
    /\ Representable(bodies)
    /\ \E h \in Dts :
          /\ dt' = h
          /\ bodies' = IntegrateForces(bodies, gravity, h)
    /\ start' = bodies
    /\ pc' = "gather"
    /\ nsteps' = nsteps + 1
    /\ UNCHANGED <<world, contacts, iter, k, separated, nforces>>

\* phase 2, broadphase and narrowphase
Gather ==
    /\ pc = "gather"
    /\ contacts' = GatherContacts(bodies)
    /\ pc' = "solve"
    /\ iter' = 0
    /\ k' = 1
    /\ separated' = {}
    /\ UNCHANGED <<bodies, world, dt, start, nsteps, nforces>>

\* phase 3, one call of solve_contact that returns
SolveContact ==
    /\ pc = "solve"
    /\ iter < iterations
    /\ k <= Len(contacts)
    /\ ~solve_contact(bodies, contacts[k]).panic
    /\ bodies' = solve_contact(bodies, contacts[k]).bodies
    /\ IF k < Len(contacts)
       THEN k' = k + 1 /\ iter' = iter
       ELSE k' = 1 /\ iter' = iter + 1
    /\ separated' = IF Gt(VelAlongNormal(bodies, contacts[k]), Zero)
                     THEN separated \cup {k}
                     ELSE separated \ {k}
    /\ UNCHANGED <<world, pc, dt, contacts, start, nsteps, nforces>>

\* phase 3, a call of solve_contact that panics in f32::clamp
SolvePanic ==
    /\ pc = "solve"
    /\ iter < iterations
    /\ k <= Len(contacts)
    /\ solve_contact(bodies, contacts[k]).panic
    /\ bodies' = solve_contact(bodies, contacts[k]).bodies
    /\ pc' = "panic"
    /\ UNCHANGED <<world, dt, contacts, iter, k, start, separated, nsteps, nforces>>

\* phase 4, integrate positions, once the solver's loops are over
Integrate ==
    /\ pc = "solve"
    /\ iter >= iterations \/ Len(contacts) = 0
    /\ bodies' = IntegratePositions(bodies, dt)
    /\ pc' = "correct"
    /\ k' = 1
    /\ UNCHANGED <<world, dt, contacts, iter, start, separated, nsteps, nforces>>

\* phase 5, one call of positional_correction
Correct ==
    /\ pc = "correct"
    /\ k <= Len(contacts)
    /\ bodies' = positional_correction(bodies, contacts[k])
    /\ k' = k + 1
    /\ UNCHANGED <<world, pc, dt, contacts, iter, start, separated, nsteps, nforces>>

\* World::step returns; its locals are dropped
StepReturn ==
    /\ pc = "correct"
    /\ k > Len(contacts)
    /\ pc' = "idle"
    /\ dt' = Zero
    /\ contacts' = <<>>
    /\ iter' = 0
    /\ k' = 0
    /\ start' = <<>>
    /\ separated' = {}
    /\ UNCHANGED <<bodies, world, nsteps, nforces>>

Next ==
    \/ AddBody
    \/ SetMaterial
    \/ WriteMass
    \/ ApplyForce
    \/ StepBegin
    \/ Gather
    \/ SolveContact
    \/ SolvePanic
    \/ Integrate
    \/ Correct
    \/ StepReturn

Spec == Init /\ [][Next]_vars

(***************************************************************************)
(* Properties.                                                             *)
(***************************************************************************)
\* the running step has done all its work and is about to return
Returning == pc = "correct" /\ k > Len(contacts)

\* manifold m joins body n to another body
Touches(m, n) == m.a = n \/ m.b = n

\* C1: a body whose inv_m is 0 (static, or dynamic built with a mass that is
\* not positive) has, when step returns, the position and the linear velocity
\* it had when step was called.
C1_ZeroInvMassUnmoved ==
    Returning =>
        \A n \in DOMAIN start :
            start[n].inv_m = Zero =>
                bodies[n].p = start[n].p /\ bodies[n].v = start[n].v

\* C2: a body whose is_static flag is set has, when step returns, the position,
\* angle, linear velocity and angular velocity it had when step was called,
\* whatever its mass fields hold.
C2_StaticNeverMoves ==
    Returning =>
        \A n \in DOMAIN start :
            start[n].is_static =>
                /\ bodies[n].p = start[n].p
                /\ bodies[n].a = start[n].a
                /\ bodies[n].v = start[n].v
                /\ bodies[n].w = start[n].w

\* C3: positional_correction on a manifold whose bodies have
\* A.inv_m + B.inv_m == 0 skips the correction: it leaves every body as it was.
C3_ZeroMassSumSkipped ==
    [][(/\ pc = "correct"
        /\ k <= Len(contacts)
        /\ Eq(Add(bodies[contacts[k].a].inv_m, bodies[contacts[k].b].inv_m), Zero))
       => bodies' = bodies]_vars

\* C4: when step returns, the force and torque accumulators of every body of
\* the world are zero.
C4_AccumulatorsCleared ==
    Returning =>
        \A n \in DOMAIN bodies : bodies[n].f = ZERO /\ bodies[n].t = Zero

\* phase 2 has just run: contacts was computed from the present positions
Gathered == pc = "solve" /\ iter = 0 /\ k = 1

\* the indices in contacts of the manifolds of the pair (i, j)
ManifoldsOf(i, j) == {q \in 1..Len(contacts) : contacts[q].a = i /\ contacts[q].b = j}

\* bodies i < j are two circles, not both static, with finite centres: a pair
\* that phase 2 hands to the circle-circle test
CirclePair(i, j) ==
    /\ i < j
    /\ bodies[i].shape.kind = "Circle"
    /\ bodies[j].shape.kind = "Circle"
    /\ ~(bodies[i].is_static /\ bodies[j].is_static)
    /\ VIsFinite(bodies[i].p)
    /\ VIsFinite(bodies[j].p)

CenterDist2(i, j) == Len2(VSub(bodies[j].p, bodies[i].p))

RadiusSum(i, j) == Add(bodies[i].shape.r, bodies[j].shape.r)

\* C5: for two circles with finite centres, circle_circle returns no manifold
\* exactly when the squared distance of the centres is >= (ra + rb)^2, and
\* otherwise one manifold with the two ids, penetration = ra + rb - distance > 0,
\* normal = (cb - ca) / distance (a unit vector from the first body toward the
\* second) when distance > 1e-5 and (1, 0) otherwise, point = ca + normal * ra.
C5_CircleCircle ==
    Gathered =>
        \A i, j \in DOMAIN bodies :
            CirclePair(i, j) =>
                LET ab == VSub(bodies[j].p, bodies[i].p)
                    dist == Sqrt(CenterDist2(i, j))
                IN  IF Ge(CenterDist2(i, j), Mul(RadiusSum(i, j), RadiusSum(i, j)))
                    THEN ManifoldsOf(i, j) = {}
                    ELSE \E q \in ManifoldsOf(i, j) :
                            LET c == contacts[q].contact
                            IN  /\ ManifoldsOf(i, j) = {q}
                                /\ c.penetration = Sub(RadiusSum(i, j), dist)
                                /\ Gt(c.penetration, Zero)
                                /\ IF Gt(dist, NormalEps)
                                   THEN /\ c.normal = VDiv(ab, dist)
                                        /\ Gt(Dot(c.normal, ab), Zero)
                                        /\ Len2(c.normal) = One
                                   ELSE c.normal = Vec2(One, Zero)
                                /\ c.point = VAdd(bodies[i].p, VMul(c.normal, bodies[i].shape.r))

\* two circles of different radii overlap with their centres apart, and
\* circle_circle has returned their manifold
C5_Witness ==
    /\ Gathered
    /\ \E i, j \in DOMAIN bodies :
          /\ CirclePair(i, j)
          /\ bodies[i].shape.r # bodies[j].shape.r
          /\ Gt(CenterDist2(i, j), Zero)
          /\ ManifoldsOf(i, j) # {}

\* every circle has a finite centre
FiniteCentres == \A n \in DOMAIN bodies : VIsFinite(bodies[n].p)

\* circles i and j overlap
Overlap(i, j) == Lt(CenterDist2(i, j), Mul(RadiusSum(i, j), RadiusSum(i, j)))

\* C6: in a world of finite positions the contact list of a step holds exactly
\* one manifold (a = i, b = j) for each pair i < j of overlapping circles that
\* are not both static, and nothing else.
C6_ContactList ==
    (Gathered /\ FiniteCentres) =>
        /\ \A q \in 1..Len(contacts) :
              /\ contacts[q].a \in DOMAIN bodies
              /\ contacts[q].b \in DOMAIN bodies
              /\ CirclePair(contacts[q].a, contacts[q].b)
              /\ Overlap(contacts[q].a, contacts[q].b)
        /\ \A i, j \in DOMAIN bodies :
              (CirclePair(i, j) /\ Overlap(i, j)) => Cardinality(ManifoldsOf(i, j)) = 1

\* a static circle and a dynamic circle overlap and are the one contact
C6_Witness ==
    /\ Gathered
    /\ FiniteCentres
    /\ Len(contacts) = 1
    /\ bodies[contacts[1].a].is_static # bodies[contacts[1].b].is_static

\* the bodies of the running step as phase 1 left them
AfterForces == IntegrateForces(start, gravity, dt)

\* manifold m joins two dynamic circles of equal positive mass that, when the
\* solver starts, approach head-on along the normal with opposite velocities,
\* do not spin, and have restitution 1 and friction 0
HeadOn(m) ==
    LET a == AfterForces[m.a]
        b == AfterForces[m.b]
    IN  /\ ~a.is_static
        /\ ~b.is_static
        /\ Gt(a.m, Zero)
        /\ a.m = b.m
        /\ a.inv_m = Div(One, a.m)
        /\ b.inv_m = Div(One, b.m)
        /\ VIsFinite(a.v)
        /\ a.v = VNeg(b.v)
        /\ Cross(a.v, m.contact.normal) = Zero
        /\ Gt(Dot(a.v, m.contact.normal), Zero)
        /\ a.w = Zero
        /\ b.w = Zero
        /\ a.material = Material(One, Zero)
        /\ b.material = Material(One, Zero)

\* the solver has gone at least once over the manifolds of the step
Solved == (pc = "solve" /\ iter >= 1) \/ pc = "correct"

\* C7: when the one contact of a step is such a head-on pair with velocities
\* v and -v, the first pass of the solver leaves the first body with -v and the
\* second with v (the relative normal velocity flips its sign and keeps its
\* magnitude, nothing spins), and the later passes leave that unchanged.
C7_ElasticHeadOn ==
    (Solved /\ Len(contacts) = 1 /\ HeadOn(contacts[1])) =>
        LET m == contacts[1]
        IN  /\ bodies[m.a].v = VNeg(AfterForces[m.a].v)
            /\ bodies[m.b].v = VNeg(AfterForces[m.b].v)
            /\ bodies[m.a].w = Zero
            /\ bodies[m.b].w = Zero
            /\ Dot(VSub(bodies[m.b].v, bodies[m.a].v), m.contact.normal)
                 = Neg(Dot(VSub(AfterForces[m.b].v, AfterForces[m.a].v), m.contact.normal))

\* all the passes of the solver have run on a head-on pair
C7_Witness ==
    /\ pc = "correct"
    /\ iter >= 2
    /\ Len(contacts) = 1
    /\ HeadOn(contacts[1])

\* body n of the running step is neither static nor of zero inverse mass, and
\* is in no manifold of the step
FreeBody(n) ==
    /\ ~start[n].is_static
    /\ Gt(start[n].inv_m, Zero)
    /\ \A q \in 1..Len(contacts) : ~Touches(contacts[q], n)

\* C8: when step returns, such a body has v = v0 + (f0 * inv_m + gravity) * dt,
\* w = w0 + (t0 * inv_i) * dt, p = p0 + v * dt and a = a0 + w * dt, where v0,
\* w0, p0, a0, f0, t0 are its fields when step was called and v, w the new
\* velocities.
C8_SemiImplicitEuler ==
    Returning =>
        \A n \in DOMAIN start :
            FreeBody(n) =>
                LET s == start[n]
                    v1 == VAdd(s.v, VMul(VAdd(VMul(s.f, s.inv_m), gravity), dt))
                    w1 == Add(s.w, Mul(Mul(s.t, s.inv_i), dt))
                IN  /\ bodies[n].v = v1
                    /\ bodies[n].w = w1
                    /\ bodies[n].p = VAdd(s.p, VMul(v1, dt))
                    /\ bodies[n].a = Add(s.a, Mul(w1, dt))

\* a step returns for a free body that was moving, under gravity and a force
C8_Witness ==
    /\ Returning
    /\ gravity # ZERO
    /\ \E n \in DOMAIN start :
          /\ FreeBody(n)
          /\ start[n].f # ZERO
          /\ start[n].v # ZERO
          /\ start[n].inv_m # One

SamePose(bs1, bs2) == \A n \in DOMAIN bs1 : bs1[n].p = bs2[n].p /\ bs1[n].a = bs2[n].a

SameVelocity(bs1, bs2) == \A n \in DOMAIN bs1 : bs1[n].v = bs2[n].v /\ bs1[n].w = bs2[n].w

\* C9: a step goes through force integration (velocities only), gathering,
\* solving (velocities only), position integration (poses only) and positional
\* correction (positions only), in that order; the manifolds that the solver
\* and the positional correction use are those that phase 2 computes from the
\* positions held when the step was called, in every step.
C9_PhaseOrder ==
    [][/\ (pc = "idle" /\ pc' # "idle") =>
              (pc' = "gather" /\ SamePose(bodies', bodies) /\ start' = bodies)
       /\ pc = "gather" =>
              (pc' = "solve" /\ bodies' = bodies /\ contacts' = GatherContacts(start))
       /\ pc = "solve" =>
              /\ pc' \in {"solve", "correct", "panic"}
              /\ contacts' = contacts
              /\ pc' # "correct" => SamePose(bodies', bodies)
              /\ pc' = "correct" =>
                     (SameVelocity(bodies', bodies) /\ (iter = iterations \/ contacts = <<>>))
       /\ pc = "correct" =>
              /\ pc' \in {"correct", "idle"}
              /\ SameVelocity(bodies', bodies)
              /\ pc' = "correct" => (contacts' = contacts /\ contacts = GatherContacts(start))
              /\ pc' = "idle" => (bodies' = bodies /\ k > Len(contacts))
       /\ pc = "panic" => pc' = "panic"]_vars

\* in a second step, positional correction works on manifolds that measuring
\* again after the position integration would not give
C9_Witness ==
    /\ pc = "correct"
    /\ nsteps = 2
    /\ contacts # <<>>
    /\ k > Len(contacts)
    /\ FiniteCentres
    /\ GatherContacts(bodies) # contacts

\* the non-static bodies of manifold m as positional correction leaves them,
\* written out from the tunables
Corrected(bs, m) ==
    LET a == bs[m.a]
        b == bs[m.b]
        mag == Mul(Div(Sub(m.contact.penetration, Slop), Add(a.inv_m, b.inv_m)), Percent)
    IN  /\ bodies'[m.a].p =
              IF a.is_static THEN a.p
              ELSE VSub(a.p, VMul(VMul(m.contact.normal, mag), a.inv_m))
        /\ bodies'[m.b].p =
              IF b.is_static THEN b.p
              ELSE VAdd(b.p, VMul(VMul(m.contact.normal, mag), b.inv_m))

\* manifold m is deeper than the slop and joins bodies that can be pushed
Correctable(bs, m) ==
    /\ IsFinite(m.contact.penetration)
    /\ Gt(m.contact.penetration, Slop)
    /\ Gt(Add(bs[m.a].inv_m, bs[m.b].inv_m), Zero)

\* C10: a solve_contact call on a manifold with vn > 0 leaves every body as it
\* was; and positional correction still pushes the bodies of a manifold whose
\* latest solve_contact call returned that way.
C10_SeparatingEarlyOut ==
    [][/\ (/\ pc = "solve"
           /\ iter < iterations
           /\ k <= Len(contacts)
           /\ Gt(VelAlongNormal(bodies, contacts[k]), Zero))
          => bodies' = bodies
       /\ (/\ pc = "correct"
           /\ k <= Len(contacts)
           /\ k \in separated
           /\ Correctable(bodies, contacts[k]))
          => (Corrected(bodies, contacts[k]) /\ bodies' # bodies)]_vars

\* positional correction has moved a body of a manifold on which the last
\* solve_contact call returned early
C10_Witness ==
    /\ pc = "correct"
    /\ k > 1
    /\ (k - 1) \in separated
    /\ Correctable(bodies, contacts[k - 1])
    /\ ~bodies[contacts[k - 1].a].is_static
    /\ Gt(bodies[contacts[k - 1].a].inv_m, Zero)

\* the linear momentum m_a * v_a + m_b * v_b of the bodies of manifold m
Momentum(bs, m) ==
    VAdd(VMul(bs[m.a].v, bs[m.a].m), VMul(bs[m.b].v, bs[m.b].m))

\* manifold m joins two dynamic bodies of positive mass with inv_m = 1/m and
\* finite velocities
MassivePair(bs, m) ==
    /\ ~bs[m.a].is_static
    /\ ~bs[m.b].is_static
    /\ Gt(bs[m.a].m, Zero)
    /\ Gt(bs[m.b].m, Zero)
    /\ bs[m.a].inv_m = Div(One, bs[m.a].m)
    /\ bs[m.b].inv_m = Div(One, bs[m.b].m)
    /\ VIsFinite(bs[m.a].v)
    /\ VIsFinite(bs[m.b].v)

\* C11: a solve_contact call on a manifold between two such bodies leaves
\* m_a * v_a + m_b * v_b as it was, after the normal impulse alone and after
\* the whole call (normal and friction impulse).
C11_MomentumConserved ==
    [][(/\ pc = "solve"
        /\ iter < iterations
        /\ k <= Len(contacts)
        /\ MassivePair(bodies, contacts[k]))
       => LET m == contacts[k]
          IN  /\ Momentum(bodies', m) = Momentum(bodies, m)
              /\ VIsFinite(Momentum(bodies', m))
              /\ ~Gt(VelAlongNormal(bodies, m), Zero) =>
                     Momentum(ApplyImpulse(bodies, m,
                                  VMul(m.contact.normal, NormalImpulse(bodies, m))), m)
                       = Momentum(bodies, m)]_vars

\* the first solve_contact call of a step has given two bodies of different
\* positive masses a normal and a friction impulse
C11_Witness ==
    /\ pc = "solve"
    /\ iter = 1
    /\ Len(contacts) = 1
    /\ MassivePair(AfterForces, contacts[1])
    /\ bodies[contacts[1].a].m # bodies[contacts[1].b].m
    /\ Dot(VSub(bodies[contacts[1].a].v, AfterForces[contacts[1].a].v),
           contacts[1].contact.normal) # Zero
    /\ Cross(VSub(bodies[contacts[1].a].v, AfterForces[contacts[1].a].v),
             contacts[1].contact.normal) # Zero

=============================================================================
